---- MODULE Spec2Model ----
(***************************************************************************)
(* Model of src/main.py (BotManager): the chat registry kept in            *)
(* self.config and config.json, the fact table, the daily jobs of the job  *)
(* queue, the command handlers and the delivery cycle send_fact.           *)
(*                                                                         *)
(* Everything runs on one asyncio event loop, so a handler or a cycle runs *)
(* atomically from one `await` that really suspends (a Telegram API call)  *)
(* to the next.  Each action below is one such stretch of code.  Awaiting  *)
(* is_user_admin, remove_all_jobs or setup_daily_jobs never suspends:      *)
(* those coroutines contain no I/O.  The Application handles updates one   *)
(* at a time (concurrent_updates is left at its default), while a job of   *)
(* the job queue runs as its own task: one handler and one cycle may be in *)
(* flight together.  A handler is suspended at each of its replies, its    *)
(* last one included: the next update waits until that reply returns.      *)
(***************************************************************************)
EXTENDS Integers, Sequences, FiniteSets, TLC

\* Bounds of the model: chat ids are 1..MaxChat, user ids 1..MaxUser.
MaxChat == 2
MaxUser == 2

Chats == 1..MaxChat
Users == 1..MaxUser

\* Python's None, also the value of an absent config key (config.get(k)).
None == 0

Range(s) == {s[i] : i \in 1..Len(s)}

(***************************************************************************)
(* Python lists and strings                                                *)
(***************************************************************************)
\* x in list
InList(x, s) == \E i \in 1..Len(s) : s[i] = x

\* list.remove(x) for x in the list: drops the first occurrence.
ListRemove(s, x) ==
    LET i == CHOOSE k \in 1..Len(s) : s[k] = x /\ \A j \in 1..(k - 1) : s[j] # x
    IN SubSeq(s, 1, i - 1) \o SubSeq(s, i + 1, Len(s))

\* A string is the sequence of its characters.
RECURSIVE Join(_)
\* " ".join(args)
Join(args) ==
    IF args = <<>> THEN <<>>
    ELSE IF Len(args) = 1 THEN args[1]
    ELSE args[1] \o <<" ">> \o Join(Tail(args))

StartsWith(s, p) == Len(s) >= Len(p) /\ SubSeq(s, 1, Len(p)) = p

RECURSIVE SplitFrom(_, _, _)
\* The pieces of s cut at each occurrence of delim found scanning left to
\* right; cur is the piece being read.
SplitFrom(s, delim, cur) ==
    IF s = <<>> THEN <<cur>>
    ELSE IF StartsWith(s, delim)
         THEN <<cur>> \o SplitFrom(SubSeq(s, Len(delim) + 1, Len(s)), delim, <<>>)
         ELSE SplitFrom(Tail(s), delim, Append(cur, Head(s)))

\* str.split(delim)
Split(s, delim) == SplitFrom(s, delim, <<>>)

RECURSIVE LStrip(_)
LStrip(s) == IF s # <<>> /\ Head(s) = " " THEN LStrip(Tail(s)) ELSE s

RECURSIVE RStrip(_)
RStrip(s) == IF s # <<>> /\ s[Len(s)] = " " THEN RStrip(SubSeq(s, 1, Len(s) - 1)) ELSE s

\* str.strip()
Strip(s) == RStrip(LStrip(s))

\* The delimiter '---' of /addfact.
Delimiter == <<"-", "-", "-">>

facts_to_add_NoStrip(args) ==
    SelectSeq(Split(Join(args), Delimiter), LAMBDA f : Strip(f) # <<>>)

\* facts_to_add = [f.strip() for f in input_text.split('---') if f.strip()]
facts_to_add(args) ==
    LET pieces == Split(Join(args), Delimiter)
        stripped == [i \in 1..Len(pieces) |-> Strip(pieces[i])]
    IN SelectSeq(stripped, LAMBDA f : f # <<>>)

InsertAll_NoUnique(st, texts) ==
    [st EXCEPT !.rows = @ \o texts, !.added = @ + Len(texts)]

RECURSIVE InsertAll(_, _)
\* The insert loop: [rows, added, skipped] after INSERT of each text in turn;
\* the UNIQUE column rejects a text that is already stored (IntegrityError).
InsertAll(st, texts) ==
    IF texts = <<>> THEN st
    ELSE IF InList(Head(texts), st.rows)
         THEN InsertAll([st EXCEPT !.skipped = @ + 1], Tail(texts))
         ELSE InsertAll([st EXCEPT !.rows = Append(@, Head(texts)), !.added = @ + 1],
                        Tail(texts))

\* facts.json: whether it exists, whether json.load accepts it, its 'facts'.
NoLegacy == [exists |-> FALSE, valid |-> FALSE, facts |-> <<>>]

\* context.args of the /addfact messages of the model: the whitespace-separated
\* words after the command.
ArgChoices ==
    { <<>>,
      << <<"A">> >>,
      << Delimiter >>,
      << <<"A">>, Delimiter, <<"A">> >> }

(***************************************************************************)
(* The registry: self.config and config.json                               *)
(***************************************************************************)
\* The config of a missing or unreadable config.json. The key setup_date,
\* written by /start and only displayed by /status, is left out.
EmptyConfig ==
    [owner_id |-> None, configured_chat_ids |-> <<>>, active_chat_id |-> None,
     chat_id |-> None]

NoFile == [exists |-> FALSE, data |-> EmptyConfig]

\* json.dump(self.config): the file now holds the whole config.
save_config(cfg) == [exists |-> TRUE, data |-> cfg]

\* json.load, or the empty config when the file is missing. Every file this
\* program writes holds configured_chat_ids as a list, so the normalisation of
\* a missing or non-list value never applies to it.
load_config(file) == IF file.exists THEN file.data ELSE EmptyConfig

is_user_admin_Always(cfg, user_id) == TRUE

is_user_admin(cfg, user_id) ==
    IF cfg.owner_id = None THEN FALSE ELSE user_id = cfg.owner_id

bootstrap_owner_Overwrite(cfg, user_id) == [cfg EXCEPT !.owner_id = user_id]

\* if self.config.get('owner_id') is None: self.config['owner_id'] = user_id
bootstrap_owner(cfg, user_id) ==
    IF cfg.owner_id = None THEN [cfg EXCEPT !.owner_id = user_id] ELSE cfg

(***************************************************************************)
(* The job queue                                                           *)
(***************************************************************************)
\* The hours of the eight daily sendings, in the order of the source.
times == <<9, 12, 15, 18, 21, 0, 3, 6>>

\* A job named f"daily_fact_{i}" run daily at hour t.
DailyJob(i, t) == [name |-> [prefix |-> "daily_fact_", n |-> i], time |-> t]

remove_all_jobs_Noop(queue) == queue

remove_all_jobs(queue) ==
    SelectSeq(queue, LAMBDA job : ~(job.name.prefix = "daily_fact_"))

setup_daily_jobs_NoClear(queue) ==
    queue \o [i \in 1..Len(times) |-> DailyJob(i, times[i])]

setup_daily_jobs(queue) ==
    remove_all_jobs(queue) \o [i \in 1..Len(times) |-> DailyJob(i, times[i])]

\* WEBHOOK_URL = None: polling mode.
WEBHOOK_URL == None

(***************************************************************************)
(* State                                                                   *)
(***************************************************************************)
VARIABLES
    config,  \* self.config
    disk,    \* config.json
    facts,   \* the rows of table facts, in insertion order
    legacy,  \* facts.json, the file of facts that _init_db migrates
    jobs,    \* application.job_queue.jobs()
    h,       \* the update handler in flight: the await it is suspended at
    cyc,     \* the send_fact call in flight: where it is, its list iterator
    hist     \* observation of the cycle in flight, or of the one that just ended;
             \* no action reads it

vars == <<config, disk, facts, legacy, jobs, h, cyc, hist>>

\* A handler suspended at the await of source line n is at pc "<handler>_n".
\* Two kinds of last replies, after which nothing differs, share a pc: "denied",
\* the reply to a caller who is not the owner (lines 208, 243, 284, 331, 355,
\* 388; not that of /start, line 183), and "replied", the reply of a handler
\* that only reads (lines 261, 336, 343, 367, 397, 405).
\* chat is the update's chat id when the code after the await, or the reply
\* itself, uses it. armed_before observes, at the last reply of /start and of
\* /stop, whether jobs were installed when the handler reached the scheduler.
NoCounts == [added |-> 0, skipped |-> 0]

\* args and reply are those of /addfact: context.args as read at line 287, and
\* the counts that response_message reports (0: the line is left out).
At(pc, chat) ==
    [pc |-> pc, chat |-> chat, armed_before |-> FALSE, args |-> <<>>, reply |-> NoCounts]
HIdle == At("idle", None)

\* The awaits that end their handler: only logging or nothing follows them.
FinalAwaits ==
    {"denied", "replied", "start_183", "start_197", "stop_225", "stop_233",
     "addfact_320", "addfact_324", "cb_412", "cb_414", "cb_425", "error_349"}

\* Where a handler suspends when it replies with update.message.reply_text. A
\* callback-query update has no message (update.message is None): on the menu
\* path the call raises AttributeError before anything is sent, the handler
\* ends there and error_handler replies through update.effective_message.
AtReply(pc, chat, msg) == IF msg THEN At(pc, chat) ELSE At("error_349", None)

CycIdle == [pc |-> "idle", idx |-> 0, chat_id |-> None]

\* status: raised once an exception has left send_fact; the specifications
\* that observe the attempts (CycleStep(TRUE)) also record running and
\* returned (send_fact returned), and with them pending: the destinations of
\* the list at the start of the loop (line 127) not attempted yet; stray: the
\* cycle attempted a destination that was not pending (a second attempt, or a
\* destination that was not in the list at the start of the loop); last: the
\* outcome of the latest attempt.
NoHist == [status |-> "none", pending |-> {}, stray |-> FALSE, last |-> "none"]

\* A handler step ends the observation of a cycle that has ended.
Observe(hst) == IF cyc.pc = "idle" THEN NoHist ELSE hst

Armed(queue) == Len(queue) > 0

Init ==
    /\ config = load_config(NoFile)
    /\ disk = NoFile
    /\ facts = <<>>
    /\ legacy = NoLegacy
    /\ jobs = <<>>
    /\ h = HIdle
    /\ cyc = CycIdle
    /\ hist = NoHist

(***************************************************************************)
(* Process start: lifespan and BotManager.__init__                         *)
(***************************************************************************)
MigrationApplies_AnyStore(rows, file) == file.exists

\* if db_fact_count == 0 and os.path.exists(FACTS_JSON_FILE)
MigrationApplies(rows, file) == rows = <<>> /\ file.exists

\* The rows after the INSERT of each legacy fact, as it is in the file, and the
\* commit; the UNIQUE column rejects a repeated text.
Migrated(rows, file) ==
    InsertAll([rows |-> rows, added |-> 0, skipped |-> 0], file.facts).rows

\* _init_db: the table and facts.json after it. A file that json.load rejects
\* is left where it is.
init_db(rows, file) ==
    IF MigrationApplies(rows, file) /\ file.valid
    THEN [facts |-> Migrated(rows, file), legacy |-> NoLegacy]
    ELSE [facts |-> rows, legacy |-> file]

\* The process is not running.
Down == At("down", None)

lifespan ==
    /\ config' = load_config(disk)
    /\ facts' = init_db(facts, legacy).facts
    /\ legacy' = init_db(facts, legacy).legacy
    /\ jobs' = IF WEBHOOK_URL # None /\ config'.chat_id # None
               THEN setup_daily_jobs(<<>>)
               ELSE <<>>
    /\ h' = HIdle
    /\ cyc' = CycIdle
    /\ hist' = NoHist
    /\ UNCHANGED disk

\* The process is killed in _init_db after the commit of the migration and
\* before os.remove.
init_db_killed ==
    /\ MigrationApplies(facts, legacy) /\ legacy.valid
    /\ facts' = Migrated(facts, legacy)
    /\ config' = load_config(disk)
    /\ jobs' = <<>>
    /\ h' = Down
    /\ cyc' = CycIdle
    /\ hist' = NoHist
    /\ UNCHANGED <<disk, legacy>>

(***************************************************************************)
(* send_fact: the delivery cycle                                           *)
(***************************************************************************)
Outcomes == {"Sent", "Forbidden", "Other"}

\* `for chat_id in configured_chat_ids`: the iterator of the list object that
\* self.config holds; it reads the list as it is now, at its own position.
LoopNext(cfg, idx) ==
    IF idx < Len(cfg.configured_chat_ids)
    THEN [pc |-> "await", idx |-> idx + 1, chat_id |-> cfg.configured_chat_ids[idx + 1]]
    ELSE CycIdle

\* The observation after the loop went on to nxt.
HistNext(hst, nxt, observed) ==
    IF ~observed THEN hst
    ELSE IF nxt.pc # "await" THEN [hst EXCEPT !.status = "returned"]
    ELSE [hst EXCEPT !.status = "running",
                     !.pending = @ \ {nxt.chat_id},
                     !.stray = @ \/ nxt.chat_id \notin hst.pending]

NothingToSend_IgnoreFacts(ids, rows) == ids = <<>>

\* The early returns of send_fact: `if not configured_chat_ids` before the
\* fact is drawn, `if not fact_row` after.
NothingToSend(ids, rows) == ids = <<>> \/ rows = <<>>

\* A slot fires: send_fact up to its first send_message.
send_fact_start(observed) ==
    /\ cyc.pc = "idle"
    /\ \E job \in Range(jobs) : job.name.prefix = "daily_fact_"
    /\ LET ids == config.configured_chat_ids
           fresh == IF observed THEN [NoHist EXCEPT !.pending = Range(ids)] ELSE NoHist
       IN IF NothingToSend(ids, facts)
          THEN /\ cyc' = CycIdle
               /\ hist' = HistNext(NoHist, cyc', observed)
          ELSE /\ cyc' = LoopNext(config, 0)
               /\ hist' = HistNext(fresh, cyc', observed)
    /\ UNCHANGED <<config, disk, facts, jobs, h>>

EscapesCycle_NoCatchAll(outcome, present) ==
    (outcome = "Forbidden" /\ ~present) \/ outcome = "Other"

\* Whether an exception leaves send_fact: `except Exception` catches every
\* failure of send_message, but list.remove inside `except Forbidden` raises
\* ValueError when chat_id is not in the list, and no handler covers that.
EscapesCycle(outcome, present) == outcome = "Forbidden" /\ ~present

Prunes_AnyFailure(outcome, present) == outcome # "Sent" /\ present

\* Whether the chat is taken out of the list: only in `except Forbidden`.
Prunes(outcome, present) == outcome = "Forbidden" /\ present

\* send_message returns or raises; the handlers of the try; the next iteration.
send_fact_resume(outcome, observed) ==
    /\ cyc.pc = "await"
    /\ LET ids == config.configured_chat_ids
           present == InList(cyc.chat_id, ids)
       IN IF EscapesCycle(outcome, present)
          THEN /\ cyc' = CycIdle
               /\ hist' = [hist EXCEPT !.status = "raised"]
               /\ UNCHANGED <<config, disk>>
          ELSE /\ config' = IF Prunes(outcome, present)
                            THEN [config EXCEPT !.configured_chat_ids = ListRemove(ids, cyc.chat_id)]
                            ELSE config
               /\ disk' = IF outcome = "Forbidden" THEN save_config(config') ELSE disk
               /\ cyc' = LoopNext(config', cyc.idx)
               /\ hist' = HistNext([hist EXCEPT !.last = IF observed THEN outcome ELSE @],
                                   cyc', observed)
    /\ UNCHANGED <<facts, jobs, h>>

(***************************************************************************)
(* /start                                                                  *)
(***************************************************************************)
\* From `self.config['active_chat_id'] = chat_id` to the last reply.
start_finish(cfg, c, msg) ==
    /\ config' = [cfg EXCEPT !.active_chat_id = c]
    /\ disk' = save_config(config')
    /\ jobs' = setup_daily_jobs(jobs)
    /\ h' = IF msg
            THEN [At("start_197", None) EXCEPT !.armed_before = Armed(jobs)]
            ELSE AtReply("start_197", None, msg)

\* From the top to the first reply.
start_entry(u, c, msg) ==
    LET cfg1 == bootstrap_owner(config, u)
        disk1 == IF config.owner_id = None THEN save_config(cfg1) ELSE disk
    IN IF ~is_user_admin(cfg1, u)
       THEN /\ config' = cfg1
            /\ disk' = disk1
            /\ jobs' = jobs
            /\ h' = AtReply("start_183", None, msg)
       ELSE IF ~InList(c, cfg1.configured_chat_ids)
            THEN /\ config' = [cfg1 EXCEPT !.configured_chat_ids = Append(@, c)]
                 /\ disk' = disk1
                 /\ jobs' = jobs
                 /\ h' = AtReply("start_189", c, msg)
            ELSE start_finish(cfg1, c, msg)

start_command(u, c) ==
    /\ h.pc = "idle"
    /\ start_entry(u, c, TRUE)
    /\ hist' = Observe(hist)
    /\ UNCHANGED <<facts, cyc>>

\* The reply of line 189 has returned.
start_resume ==
    /\ h.pc = "start_189"
    /\ start_finish(config, h.chat, TRUE)
    /\ hist' = Observe(hist)
    /\ UNCHANGED <<facts, cyc>>

(***************************************************************************)
(* /stop                                                                   *)
(***************************************************************************)
\* From `if self.config.get('active_chat_id') == chat_id` to the last reply.
stop_finish(cfg, c, msg) ==
    /\ config' = IF cfg.active_chat_id = c THEN [cfg EXCEPT !.active_chat_id = None] ELSE cfg
    /\ disk' = save_config(config')
    /\ jobs' = IF config'.configured_chat_ids = <<>> THEN remove_all_jobs(jobs) ELSE jobs
    /\ h' = IF ~msg THEN AtReply("stop_225", None, msg)
            ELSE IF config'.configured_chat_ids = <<>>
                 THEN [At("stop_225", None) EXCEPT !.armed_before = Armed(jobs)]
                 ELSE [At("stop_233", None) EXCEPT !.armed_before = Armed(jobs)]

\* From the top to the first reply.
stop_entry(u, c, msg) ==
    IF ~is_user_admin(config, u)
    THEN /\ h' = AtReply("denied", None, msg)
         /\ UNCHANGED <<config, disk, jobs>>
    ELSE IF InList(c, config.configured_chat_ids)
         THEN /\ config' = [config EXCEPT !.configured_chat_ids = ListRemove(@, c)]
              /\ h' = AtReply("stop_215", c, msg)
              /\ UNCHANGED <<disk, jobs>>
         ELSE stop_finish(config, c, msg)

stop_command(u, c) ==
    /\ h.pc = "idle"
    /\ stop_entry(u, c, TRUE)
    /\ hist' = Observe(hist)
    /\ UNCHANGED <<facts, cyc>>

\* The reply of line 215 has returned.
stop_resume ==
    /\ h.pc = "stop_215"
    /\ stop_finish(config, h.chat, TRUE)
    /\ hist' = Observe(hist)
    /\ UNCHANGED <<facts, cyc>>

(***************************************************************************)
(* /status, /listchats, /config, the chat-management menu                  *)
(***************************************************************************)
\* A handler that only reads and replies.
ReadOnly(u, msg) ==
    /\ h' = IF is_user_admin(config, u)
            THEN AtReply("replied", None, msg)
            ELSE AtReply("denied", None, msg)
    /\ UNCHANGED <<config, disk, facts, jobs>>

status_entry(u, msg) == ReadOnly(u, msg)

list_chats_entry(u, msg) == ReadOnly(u, msg)

config_menu_entry(u, msg) == ReadOnly(u, msg)

manage_chats_menu(u, msg) == ReadOnly(u, msg)

status_command(u) ==
    /\ h.pc = "idle"
    /\ status_entry(u, TRUE)
    /\ hist' = Observe(hist)
    /\ UNCHANGED cyc

list_chats_command(u) ==
    /\ h.pc = "idle"
    /\ list_chats_entry(u, TRUE)
    /\ hist' = Observe(hist)
    /\ UNCHANGED cyc

config_menu(u) ==
    /\ h.pc = "idle"
    /\ config_menu_entry(u, TRUE)
    /\ hist' = Observe(hist)
    /\ UNCHANGED cyc

(***************************************************************************)
(* /addfact                                                                *)
(***************************************************************************)
NoUsableCandidate_ArgsOnly(args, todo) == args = <<>>

\* The two `raise IndexError`: no argument, or no piece left after the split.
NoUsableCandidate(args, todo) == args = <<>> \/ todo = <<>>

addfact_command(u, args) ==
    /\ h.pc = "idle"
    /\ IF ~is_user_admin(config, u)
       THEN /\ h' = At("denied", None)
            /\ facts' = facts
       ELSE LET todo == facts_to_add(args)
                done == InsertAll([rows |-> facts, added |-> 0, skipped |-> 0], todo)
            IN IF NoUsableCandidate(args, todo)
               THEN /\ h' = [At("addfact_324", None) EXCEPT !.args = args]
                    /\ facts' = facts
               ELSE /\ facts' = done.rows
                    /\ h' = [At("addfact_320", None) EXCEPT
                                !.args = args,
                                !.reply = [added |-> done.added, skipped |-> done.skipped]]
    /\ hist' = Observe(hist)
    /\ UNCHANGED <<config, disk, jobs, cyc>>

(***************************************************************************)
(* The inline menu: callback_handler                                       *)
(***************************************************************************)
Actions ==
    {"config_status", "config_addfact", "config_manage_chats", "config_stop",
     "config_start", "config_close", "manage_chats_list", "manage_chats_add_current",
     "manage_chats_remove_current", "config_menu_main"}

\* A button is pressed: up to `await query.answer()`. Nothing of the update is
\* read before that await.
callback_handler ==
    /\ h.pc = "idle"
    /\ h' = At("cb_385", None)
    /\ hist' = Observe(hist)
    /\ UNCHANGED <<config, disk, facts, jobs, cyc>>

manage_chats_add_current_NoTest(c) ==
    /\ config' = [config EXCEPT !.configured_chat_ids = Append(@, c)]
    /\ disk' = save_config(config')
    /\ h' = At("cb_412", c)
    /\ UNCHANGED <<facts, jobs>>

manage_chats_add_current(c) ==
    /\ IF ~InList(c, config.configured_chat_ids)
       THEN /\ config' = [config EXCEPT !.configured_chat_ids = Append(@, c)]
            /\ disk' = save_config(config')
            /\ h' = At("cb_412", c)
       ELSE /\ h' = At("cb_414", None)
            /\ UNCHANGED <<config, disk>>
    /\ UNCHANGED <<facts, jobs>>

\* Up to the edit_message_text of line 419 or 425.
manage_chats_remove_current(c) ==
    /\ IF InList(c, config.configured_chat_ids)
       THEN /\ config' = [config EXCEPT !.configured_chat_ids = ListRemove(@, c)]
            /\ disk' = save_config(config')
            /\ h' = At("cb_419", c)
       ELSE /\ h' = At("cb_425", None)
            /\ UNCHANGED <<config, disk>>
    /\ UNCHANGED <<facts, jobs>>

\* query.answer() has returned: the permission check and the action of the
\* button pressed by user u (the update is first read here; c is the chat of
\* the message that carries the menu, read by the actions that use it).
callback_dispatch(u, action) ==
    /\ h.pc = "cb_385"
    /\ IF ~is_user_admin(config, u)
       THEN /\ h' = At("denied", None)
            /\ UNCHANGED <<config, disk, facts, jobs>>
       ELSE CASE action = "config_status" -> status_entry(u, FALSE)
              [] action = "config_addfact" -> /\ h' = At("replied", None)
                                              /\ UNCHANGED <<config, disk, facts, jobs>>
              [] action = "config_manage_chats" -> manage_chats_menu(u, FALSE)
              [] action = "config_stop" ->
                    /\ \E c \in Chats : stop_entry(u, c, FALSE)
                    /\ facts' = facts
              [] action = "config_start" ->
                    /\ \E c \in Chats : start_entry(u, c, FALSE)
                    /\ facts' = facts
              [] action = "config_close" -> /\ h' = At("replied", None)
                                            /\ UNCHANGED <<config, disk, facts, jobs>>
              [] action = "manage_chats_list" -> list_chats_entry(u, FALSE)
              [] action = "manage_chats_add_current" ->
                    \E c \in Chats : manage_chats_add_current(c)
              [] action = "manage_chats_remove_current" ->
                    \E c \in Chats : manage_chats_remove_current(c)
              [] action = "config_menu_main" -> config_menu_entry(u, FALSE)
    /\ hist' = Observe(hist)
    /\ UNCHANGED cyc

\* The edit_message_text of line 419 has returned.
callback_remove_resume ==
    /\ h.pc = "cb_419"
    /\ IF config.active_chat_id = h.chat
       THEN /\ config' = [config EXCEPT !.active_chat_id = None]
            /\ disk' = save_config(config')
       ELSE UNCHANGED <<config, disk>>
    /\ h' = HIdle
    /\ hist' = Observe(hist)
    /\ UNCHANGED <<facts, jobs, cyc>>

\* The last reply of a handler has returned: the handler ends.
handler_return ==
    /\ h.pc \in FinalAwaits
    /\ h' = HIdle
    /\ hist' = Observe(hist)
    /\ UNCHANGED <<config, disk, facts, jobs, cyc>>

(***************************************************************************)
(* The specifications                                                      *)
(***************************************************************************)
\* A step of the update handler.
HandlerStep ==
    /\ UNCHANGED legacy
    /\ \/ \E u \in Users, c \in Chats : start_command(u, c)
       \/ start_resume
       \/ \E u \in Users, c \in Chats : stop_command(u, c)
       \/ stop_resume
       \/ \E u \in Users : status_command(u)
       \/ \E u \in Users : list_chats_command(u)
       \/ \E u \in Users : config_menu(u)
       \/ \E u \in Users, args \in ArgChoices : addfact_command(u, args)
       \/ callback_handler
       \/ \E u \in Users, action \in Actions : callback_dispatch(u, action)
       \/ callback_remove_resume
       \/ handler_return

\* A step of the delivery cycle.
CycleStep(observed) ==
    /\ UNCHANGED legacy
    /\ \/ send_fact_start(observed)
       \/ \E outcome \in Outcomes : send_fact_resume(outcome, observed)

Next == lifespan \/ CycleStep(FALSE) \/ HandlerStep

\* The program: handlers and cycles interleaved at their awaits.
Spec == Init /\ [][Next]_vars

NextObs == lifespan \/ CycleStep(TRUE) \/ HandlerStep

\* The same program with the attempts of each cycle observed.
SpecObs == Init /\ [][NextObs]_vars

NextSeq == lifespan \/ CycleStep(TRUE) \/ (cyc.pc = "idle" /\ HandlerStep)

\* No handler step while a cycle is in flight; attempts observed.
SpecSeq == Init /\ [][NextSeq]_vars

(***************************************************************************)
(* Properties of the delivery cycle                                        *)
(***************************************************************************)
\* C1: in a cycle with no command interleaved (SpecSeq), when send_fact has
\* returned, every destination of the list at cycle start has been attempted
\* (none is pending) and none was attempted twice or from outside that list.
C1_EveryDestinationAttemptedOnce ==
    hist.status = "returned" => (hist.pending = {} /\ ~hist.stray)

\* C2: when the cycle awaits its attempt to a destination that a deregistration
\* has meanwhile taken out of the list, and the attempt is rejected as blocked,
\* no exception leaves send_fact and the list and the active marker stay as
\* the deregistration left them.
C2_RemoveAbsentIsNoOp ==
    [][(/\ cyc.pc = "await"
        /\ ~InList(cyc.chat_id, config.configured_chat_ids)
        /\ send_fact_resume("Forbidden", FALSE))
       => (/\ hist'.status # "raised"
           /\ config'.configured_chat_ids = config.configured_chat_ids
           /\ config'.active_chat_id = config.active_chat_id)]_vars

\* C3: with no command interleaved (SpecSeq), no exception leaves send_fact,
\* whatever the list and the outcomes of the attempts.
C3_CycleNeverRaises == hist.status # "raised"

\* A cycle over a non-empty list has returned although one of its attempts was
\* rejected as blocked (the only way a destination of the start list is left
\* unattempted when nothing is interleaved).
C3_Witness == hist.status = "returned" /\ hist.pending # {}

\* C7: the step of a cycle that prunes the last destination of the list (which
\* is also the last step of that cycle) leaves no daily job installed.
C7_PruneLastDisarms ==
    [][(/\ \E outcome \in Outcomes : send_fact_resume(outcome, FALSE)
        /\ config.configured_chat_ids # <<>>
        /\ config'.configured_chat_ids = <<>>)
       => ~Armed(jobs')]_vars

(***************************************************************************)
(* Properties of the owner and of authorization                            *)
(***************************************************************************)
\* C4: a stored owner never changes, in any step of any handler, cycle or
\* restart; and the /start of user u when no owner is stored makes u the
\* owner, in memory and in config.json, within that one step.
C4_OwnerSetOnce ==
    [][/\ config.owner_id # None => config'.owner_id = config.owner_id
       /\ \A u \in Users, c \in Chats :
            (config.owner_id = None /\ start_command(u, c))
            => (config'.owner_id = u /\ disk'.data.owner_id = u)]_vars

\* An owner is stored and the /start of another user has been refused.
C4_Witness == h.pc = "start_183" /\ config.owner_id # None

\* C5: /stop, /status, /addfact, /listchats, /config or a menu callback from a
\* user who is not the stored owner (any user while none is stored), and
\* /start from a non-owner once an owner is stored, leave the config (owner,
\* list, active marker), config.json, the facts and the jobs unchanged: a step
\* that changes any of them is not the step of such a command.
C5_UnauthorizedChangesNothing ==
    [][\/ UNCHANGED <<config, disk, facts, jobs>>
       \/ ~\E u \in Users \ {config.owner_id} :
             \/ \E c \in Chats : stop_command(u, c)
             \/ status_command(u)
             \/ \E args \in ArgChoices : addfact_command(u, args)
             \/ list_chats_command(u)
             \/ config_menu(u)
             \/ \E action \in Actions : callback_dispatch(u, action)
             \/ \E c \in Chats : config.owner_id # None /\ start_command(u, c)]_vars

\* A command has been refused while there were destinations, facts and jobs
\* for it to change.
C5_Witness ==
    /\ h.pc \in {"denied", "start_183"}
    /\ config.configured_chat_ids # <<>>
    /\ facts # <<>>
    /\ Armed(jobs)

(***************************************************************************)
(* Properties of the scheduler                                             *)
(***************************************************************************)
\* C6: the step in which an authorized /start reaches its last reply leaves
\* jobs installed; the step in which an authorized /stop reaches its last reply
\* leaves no job installed when the list is then empty, and leaves the jobs as
\* they were when other destinations remain.
C6_StartStopFollowSet ==
    [][/\ (/\ h'.pc = "start_197"
           /\ start_resume \/ \E u \in Users, c \in Chats : start_command(u, c))
          => Armed(jobs')
       /\ (/\ h'.pc \in {"stop_225", "stop_233"}
           /\ stop_resume \/ \E u \in Users, c \in Chats : stop_command(u, c))
          => IF config'.configured_chat_ids = <<>>
             THEN h'.pc = "stop_225" /\ ~Armed(jobs')
             ELSE h'.pc = "stop_233" /\ jobs' = jobs]_vars

\* A /stop that found jobs installed has emptied the list and left none.
C6_Witness == h.pc = "stop_225" /\ h.armed_before /\ ~Armed(jobs)

\* C8: a process start that loads a non-empty destination list from
\* config.json leaves the daily jobs installed.
C8_ArmedAtStart ==
    [][(lifespan /\ load_config(disk).configured_chat_ids # <<>>)
       => Armed(jobs')]_vars

\* C9: at most eight jobs are installed, no two at the same hour, and when any
\* are installed their hours are exactly 0, 3, ..., 21.
C9_AtMostEightSlots ==
    /\ Len(jobs) <= 8
    /\ \A i, j \in 1..Len(jobs) : jobs[i].time = jobs[j].time => i = j
    /\ jobs # <<>> => {jobs[i].time : i \in 1..Len(jobs)} = {3 * k : k \in 0..7}

\* A /start that found jobs installed has re-armed: eight jobs are installed.
C9_Witness == h.pc = "start_197" /\ h.armed_before /\ Len(jobs) = 8

(***************************************************************************)
(* Properties of persistence                                               *)
(***************************************************************************)
\* C10: in the step that sends the reply announcing that chat c was added
\* (/start line 189, menu line 412), config.json already lists c; in the step
\* that sends the reply announcing that c was removed (/stop line 215, menu
\* line 419), config.json no longer lists c.
C10_PersistedBeforeAck ==
    [][/\ (h'.pc \in {"start_189", "cb_412"} /\ h' # h)
          => InList(h'.chat, disk'.data.configured_chat_ids)
       /\ (h'.pc \in {"stop_215", "cb_419"} /\ h' # h)
          => ~InList(h'.chat, disk'.data.configured_chat_ids)]_vars

(***************************************************************************)
(* Properties of the registry                                              *)
(***************************************************************************)
Occurrences(d, s) == Cardinality({i \in 1..Len(s) : s[i] = d})

\* The owner presses 'add current chat' in chat c: the step of callback_handler
\* after query.answer().
MenuAdd(c) ==
    /\ h.pc = "cb_385"
    /\ \E u \in Users : is_user_admin(config, u)
                        /\ callback_dispatch(u, "manage_chats_add_current")
    /\ manage_chats_add_current(c)

\* C11: no destination ever occurs twice in the list; and an authorized /start
\* or menu add for a chat c that is already in the list leaves the list as it
\* is, with its one occurrence of c, and announces no addition: /start goes on
\* to its last reply (line 197) without the reply of line 189, the menu
\* replies that the chat is already in the list (line 414).
C11_RegistrationIdempotent ==
    /\ [](\A d \in Chats : Occurrences(d, config.configured_chat_ids) <= 1)
    /\ [][\A c \in Chats :
            (/\ h.pc \in {"idle", "cb_385"}
             /\ InList(c, config.configured_chat_ids)
             /\ \/ \E u \in Users : u = config.owner_id /\ start_command(u, c)
                \/ MenuAdd(c))
            => (/\ config'.configured_chat_ids = config.configured_chat_ids
                /\ Occurrences(c, config'.configured_chat_ids) = 1
                /\ h'.pc = IF h.pc = "idle" THEN "start_197" ELSE "cb_414")]_vars

\* The menu has answered that the chat is already in the list.
C11_Witness == h.pc = "cb_414" /\ config.configured_chat_ids # <<>>

\* C12: an authorized registration of chat c leaves the active marker equal to
\* c: the step in which /start reaches its last reply, and the step in which
\* the menu's 'add current chat' acts, whether c was in the list or not.
C12_RegistrationSetsActive ==
    [][\A c \in Chats :
         /\ (/\ h'.pc = "start_197"
             /\ \/ h.pc = "start_189" /\ h.chat = c /\ start_resume
                \/ \E u \in Users : start_command(u, c))
            => config'.active_chat_id = c
         /\ MenuAdd(c) => config'.active_chat_id = c]_vars

\* C13: the step of a cycle that prunes destination d after a blocked delivery
\* leaves d out of the list, config.json equal to the config in memory, and
\* the active marker not equal to d, so that the marker, when set, names a
\* destination of the list.
C13_PruneLikeDeregister ==
    [][(/\ cyc.pc = "await"
        /\ InList(cyc.chat_id, config.configured_chat_ids)
        /\ send_fact_resume("Forbidden", FALSE))
       => (/\ ~InList(cyc.chat_id, config'.configured_chat_ids)
           /\ disk' = save_config(config')
           /\ config'.active_chat_id # cyc.chat_id)]_vars

\* C14: a cycle attempts only destinations that are in the list when it picks
\* them, and a destination that is not in the list (as its deregistration
\* leaves it) comes back into the list only by a registration of it (/start,
\* the menu's start, the menu's add): so no cycle that starts after the
\* deregistration of d attempts d before d is registered again. Steps that
\* cut a handler short between two of its awaits (a process start while a
\* handler is suspended there) are left aside.
C14_NoDeliveryAfterDeregistration ==
    [][/\ (cyc' # cyc /\ cyc'.pc = "await")
          => InList(cyc'.chat_id, config'.configured_chat_ids)
       /\ \A d \in Chats :
            (/\ ~InList(d, config.configured_chat_ids)
             /\ InList(d, config'.configured_chat_ids)
             /\ h.pc \notin {"start_189", "stop_215", "cb_419"})
            => \/ \E u \in Users : start_command(u, d)
               \/ h.pc = "cb_385" /\ \E u \in Users : callback_dispatch(u, "config_start")
               \/ MenuAdd(d)]_vars

(***************************************************************************)
(* More properties of the delivery cycle                                   *)
(***************************************************************************)
\* C15: a cycle that starts with an empty destination list, or with an empty
\* fact table, returns without reaching any send_message and leaves the
\* config, config.json, the facts and the jobs unchanged.
C15_NothingToSendIsNoOp ==
    [][(/\ cyc.pc = "idle"
        /\ config.configured_chat_ids = <<>> \/ facts = <<>>
        /\ send_fact_start(TRUE))
       => (/\ cyc'.pc = "idle"
           /\ hist'.status = "returned"
           /\ hist'.last = "none"
           /\ UNCHANGED <<config, disk, facts, jobs>>)]_vars

\* A cycle has returned with destinations registered and no fact stored.
C15_Witness ==
    /\ hist.status = "returned"
    /\ config.configured_chat_ids # <<>>
    /\ facts = <<>>
    /\ Armed(jobs)

\* C16: with no command interleaved, the step of a cycle in which a delivery
\* fails otherwise than as blocked leaves the config and config.json as they
\* are, the destination in the list, and goes on to the next position of the
\* list without attempting any destination a second time; and a step of a
\* cycle that changes the list is the step of a blocked delivery.
C16_TransientFailureChangesNothing ==
    [][/\ (cyc.pc = "await" /\ send_fact_resume("Other", TRUE))
          => (/\ config' = config
              /\ disk' = disk
              /\ InList(cyc.chat_id, config'.configured_chat_ids)
              /\ cyc'.pc = "await" => cyc'.idx = cyc.idx + 1
              /\ ~hist'.stray)
       /\ (/\ cyc.pc = "await"
           /\ config'.configured_chat_ids # config.configured_chat_ids
           /\ \E outcome \in Outcomes : send_fact_resume(outcome, TRUE))
          => send_fact_resume("Forbidden", TRUE)]_vars

\* After a delivery that failed otherwise than as blocked, the cycle is
\* awaiting its attempt to the next destination.
C16_Witness == hist.last = "Other" /\ hist.status = "running"

(***************************************************************************)
(* /addfact on richer messages                                             *)
(***************************************************************************)
MaxArgs == 5
MaxText == 3
MaxStore == 2

\* The words of the /addfact messages: Telegram splits the text of the command
\* at whitespace, so no word holds a blank.
Words == {<<"A">>, <<"B">>, Delimiter}

\* context.args: up to MaxArgs words, no text longer than MaxText characters
\* (k letters joined by blanks make 2k - 1 characters).
FactArgs ==
    LET run == (MaxText + 1) \div 2
    IN {args \in UNION {[1..n -> Words] : n \in 0..MaxArgs} :
          \A i \in 1..(Len(args) - run) : \E j \in i..(i + run) : args[j] = Delimiter}

\* The owner has registered a chat with /start and taken it out with /stop;
\* the facts table is empty.
FactInit ==
    /\ config = [EmptyConfig EXCEPT !.owner_id = 1]
    /\ disk = save_config(config)
    /\ facts = <<>>
    /\ legacy = NoLegacy
    /\ jobs = <<>>
    /\ h = HIdle
    /\ cyc = CycIdle
    /\ hist = NoHist

\* /addfact messages, sent while the table holds fewer than MaxStore rows.
NextFact ==
    /\ UNCHANGED legacy
    /\ \/ /\ Len(facts) < MaxStore
          /\ \E u \in Users, args \in FactArgs : addfact_command(u, args)
       \/ handler_return

FactSpec == FactInit /\ [][NextFact]_vars

RECURSIVE WordGroups(_, _)
\* The groups of words between the delimiter words of a message; cur is the
\* group being read.
WordGroups(ws, cur) ==
    IF ws = <<>> THEN <<cur>>
    ELSE IF Head(ws) = Delimiter
         THEN <<cur>> \o WordGroups(Tail(ws), <<>>)
         ELSE WordGroups(Tail(ws), Append(cur, Head(ws)))

\* The candidates of a message whose words are letters or the delimiter: its
\* non-empty groups of words, each written with single blanks.
Candidates(args) ==
    LET groups == WordGroups(args, <<>>)
    IN SelectSeq([i \in 1..Len(groups) |-> Join(groups[i])], LAMBDA t : t # <<>>)

\* The handler has answered an authorized /addfact.
AddfactDone == h.pc = "idle" /\ h'.pc \in {"addfact_320", "addfact_324"}

\* C17: an authorized /addfact whose message holds one candidate t, whatever
\* delimiters and blanks surround it, is accepted; when t is already a row the
\* table is unchanged and the reply counts one omitted and none added;
\* otherwise the table gains the one row t and the reply counts one added.
C17_AddIsDuplicateChecked ==
    [][(AddfactDone /\ Len(Candidates(h'.args)) = 1)
       => LET t == Candidates(h'.args)[1]
          IN /\ h'.pc = "addfact_320"
             /\ IF InList(t, facts)
                THEN facts' = facts /\ h'.reply = [added |-> 0, skipped |-> 1]
                ELSE facts' = Append(facts, t) /\ h'.reply = [added |-> 1, skipped |-> 0]]_vars

\* A text already stored was sent again between delimiters and was omitted.
C17_Witness ==
    /\ h.pc = "addfact_320"
    /\ Len(Candidates(h.args)) = 1
    /\ InList(Delimiter, h.args)
    /\ InList(Candidates(h.args)[1], facts)
    /\ h.reply = [added |-> 0, skipped |-> 1]

\* C18: after an authorized /addfact with at least one candidate, the counts
\* of the reply sum to the number of candidates, the added count is the number
\* of rows gained, the old rows are kept in place, and the rows are the old
\* ones and every candidate, also those after a duplicate; 'A --- B --- A' on
\* an empty table gives added 2, omitted 1 and the rows A, B.
C18_BatchPiecesIndependent ==
    [][(AddfactDone /\ Candidates(h'.args) # <<>>)
       => LET cs == Candidates(h'.args)
          IN /\ h'.reply.added + h'.reply.skipped = Len(cs)
             /\ h'.reply.added = Len(facts') - Len(facts)
             /\ SubSeq(facts', 1, Len(facts)) = facts
             /\ Range(facts') = Range(facts) \cup Range(cs)
             /\ (facts = <<>> /\ h'.args = << <<"A">>, Delimiter, <<"B">>, Delimiter, <<"A">> >>)
                => (/\ h'.reply = [added |-> 2, skipped |-> 1]
                    /\ facts' = << <<"A">>, <<"B">> >>)]_vars

\* 'A --- B --- A' has been answered on a table that was empty.
C18_Witness ==
    /\ h.pc = "addfact_320"
    /\ h.args = << <<"A">>, Delimiter, <<"B">>, Delimiter, <<"A">> >>
    /\ h.reply = [added |-> 2, skipped |-> 1]
    /\ facts = << <<"A">>, <<"B">> >>

\* C19: an authorized /addfact is answered with the usage message exactly when
\* its message holds no candidate, and then the table is unchanged.
C19_InvalidInputIffNoCandidate ==
    [][AddfactDone
       => /\ h'.pc = "addfact_324" <=> Candidates(h'.args) = <<>>
          /\ h'.pc = "addfact_324" => facts' = facts]_vars

\* A message of delimiters only was refused while the table held rows.
C19_Witness ==
    /\ h.pc = "addfact_324"
    /\ Len(h.args) > 1
    /\ facts # <<>>

(***************************************************************************)
(* The migration of facts.json at process start                            *)
(***************************************************************************)
MaxLegacy == 2

\* The texts of facts.json and of the table; a text of the file is not
\* stripped.
LegacyTexts == {<<"A">>, <<"B">>, <<" ", "A">>}

\* facts.json: absent, rejected by json.load, or a list of up to MaxLegacy
\* texts, repeated ones included.
LegacyChoices ==
    {NoLegacy, [exists |-> TRUE, valid |-> FALSE, facts |-> <<>>]}
    \cup {[exists |-> TRUE, valid |-> TRUE, facts |-> l] :
            l \in UNION {[1..n -> LegacyTexts] : n \in 0..MaxLegacy}}

\* The tables of up to MaxStore rows; the column is UNIQUE.
Stores ==
    {st \in UNION {[1..n -> LegacyTexts] : n \in 0..MaxStore} :
        \A i, j \in 1..Len(st) : st[i] = st[j] => i = j}

\* Before a process start: any table, any facts.json, no config.json.
MigInit ==
    /\ config = load_config(NoFile)
    /\ disk = NoFile
    /\ facts \in Stores
    /\ legacy \in LegacyChoices
    /\ jobs = <<>>
    /\ h = Down
    /\ cyc = CycIdle
    /\ hist = NoHist

\* The process is stopped and a deployment puts a facts.json in place, or
\* none.
deploy(file) ==
    /\ legacy' = file
    /\ config' = load_config(disk)
    /\ jobs' = <<>>
    /\ h' = Down
    /\ cyc' = CycIdle
    /\ hist' = NoHist
    /\ UNCHANGED <<disk, facts>>

NextMig ==
    \/ lifespan
    \/ init_db_killed
    \/ \E file \in LegacyChoices : deploy(file)

\* Process starts, completed or killed in the migration, and deployments.
MigSpec == MigInit /\ [][NextMig]_vars

\* The table after a start that is killed between the commit and os.remove.
KilledRun(rows, file) ==
    IF MigrationApplies(rows, file) /\ file.valid THEN Migrated(rows, file) ELSE rows

\* C20: from every table and facts.json, a second run of _init_db leaves the
\* table as the first run left it, whether the first run completed, was killed
\* between the commit and os.remove, or facts.json was put back; no text is
\* stored twice; and a process start, completed or killed, that finds rows in
\* the table changes neither the table nor facts.json, while one that finds
\* it empty keeps every text of a readable facts.json and discards the file
\* only with its texts stored.
C20_MigrationIdempotent ==
    /\ [](LET once == init_db(facts, legacy)
              killed == KilledRun(facts, legacy)
          IN /\ init_db(once.facts, once.legacy).facts = once.facts
             /\ init_db(once.facts, legacy).facts = once.facts
             /\ init_db(killed, legacy).facts = once.facts
             /\ \A t \in LegacyTexts : Occurrences(t, once.facts) <= 1)
    /\ [][(lifespan \/ init_db_killed)
          => /\ facts # <<>> => (facts' = facts /\ legacy' = legacy)
             /\ SubSeq(facts', 1, Len(facts)) = facts
             /\ legacy' # legacy => Range(legacy.facts) \subseteq Range(facts')
             /\ (facts = <<>> /\ legacy.valid) => Range(facts') = Range(legacy.facts)]_vars

\* A process has started on a table that holds the texts of a facts.json that
\* is still in place: the start after a killed migration, which changed
\* nothing.
C20_Witness ==
    /\ h.pc = "idle"
    /\ legacy.valid
    /\ facts # <<>>
    /\ Len(legacy.facts) > Len(facts)
    /\ Range(legacy.facts) = Range(facts)

(***************************************************************************)
(* The texts of the table                                                  *)
(***************************************************************************)
\* Every row is non-empty and stripped, and no two rows have the same
\* stripped text.
WellFormed(rows) ==
    /\ \A i \in 1..Len(rows) : rows[i] # <<>> /\ Strip(rows[i]) = rows[i]
    /\ \A i, j \in 1..Len(rows) : Strip(rows[i]) = Strip(rows[j]) => i = j

\* C21: a process start, with the migration of facts.json completed or killed
\* after its commit, that finds the table with non-empty, stripped and
\* pairwise different texts leaves it so.
C21_StoredTextsTrimmedUnique ==
    [][((lifespan \/ init_db_killed) /\ WellFormed(facts)) => WellFormed(facts')]_vars

(***************************************************************************)
(* Commands interleaved with a cycle                                       *)
(***************************************************************************)
\* The destinations that the iterator of a cycle in flight has yet to reach.
Remaining(cfg, c) ==
    Range(SubSeq(cfg.configured_chat_ids, c.idx + 1, Len(cfg.configured_chat_ids)))

\* C22: a step of a command handler taken while a cycle is awaiting a delivery
\* leaves the destinations that the cycle has yet to attempt as they were:
\* none is dropped by a deregistration of another one, and none is added by a
\* registration.
C22_CycleWorksOnSnapshot ==
    [][(cyc.pc = "await" /\ cyc' = cyc /\ h' # h)
       => Remaining(config', cyc') = Remaining(config, cyc)]_vars

\* The destination list that config.json holds.
Persisted == load_config(disk)

\* C23: a step of a cycle taken while a command handler is suspended at an
\* await reads a destination list equal to the one of config.json.
C23_MutationAndSaveAtomic ==
    [][(h.pc # "idle" /\ cyc' # cyc /\ h' = h)
       => config.configured_chat_ids = Persisted.configured_chat_ids]_vars

(***************************************************************************)
(* The menu and the scheduler                                              *)
(***************************************************************************)
\* The owner presses 'remove this chat' on the menu shown in chat c.
MenuRemove(c) ==
    /\ h.pc = "cb_385"
    /\ \E u \in Users : is_user_admin(config, u)
                        /\ callback_dispatch(u, "manage_chats_remove_current")
    /\ manage_chats_remove_current(c)

\* C24: the menu's 'add this chat' pressed with an empty destination list
\* leaves the eight slots installed, and 'remove this chat' pressed on the
\* only destination leaves no slot.
C24_MenuKeepsSchedulerInStep ==
    [][\A c \in Chats :
         /\ (config.configured_chat_ids = <<>> /\ MenuAdd(c))
            => (Armed(jobs') /\ Len(jobs') = 8)
         /\ (config.configured_chat_ids = <<c>> /\ MenuRemove(c))
            => jobs' = <<>>]_vars

(***************************************************************************)
(* config.json at rest                                                     *)
(***************************************************************************)
\* C25: when no command handler and no cycle is in flight, config.json holds
\* the owner, the destination list and the active marker of self.config.
C25_PersistedEqualsMemoryAtRest ==
    (h.pc = "idle" /\ cyc.pc = "idle")
    => (/\ Persisted.owner_id = config.owner_id
        /\ Persisted.configured_chat_ids = config.configured_chat_ids
        /\ Persisted.active_chat_id = config.active_chat_id)

====
